---------------------------- MODULE Spec2Model ----------------------------
(***************************************************************************)
(* A model of the map tooling of Game-Off-2025-Walt:                       *)
(*   tools/generate_navigation_grid.py     (single flat world-map image)   *)
(*   tools/generate_pathing_from_layers.py (water / port / island layers)  *)
(*                                                                         *)
(* Coordinates are 0-based as in the Python code; TLA+ sequences are       *)
(* 1-based, so the cell grid[y][x] of the code is grid[y + 1][x + 1] here. *)
(* A Python list is a sequence, a Python set a set, a tuple a tuple.       *)
(***************************************************************************)
EXTENDS Integers, Sequences, FiniteSets, TLC

VARIABLES
    pc,                 \* position in the function being run
    image,              \* the decoded RGB image behind image_path, or NoFile
    scale,              \* --scale
    color_args,         \* ocean_color / land_color / edge_color as passed in
    colors,             \* the three colors after auto-detection
    grid,               \* the list of rows of booleans
    largest_component,  \* result of find_largest_connected_component
    cluster_min_size,   \* --cluster-min-size
    waypoint_type,      \* 'port' or 'island'
    pos,                \* row-major position of the scan loop of detect_waypoints
    visited,            \* the visited set threaded through flood_fill_cluster
    cluster,            \* the cluster returned by the last flood_fill_cluster
    clusters,           \* the clusters kept by detect_waypoints
    coord,              \* arguments of image_to_screen_coords
    result,             \* the value returned
    error,              \* the exception that ended the run, or NoError
    files,              \* main: the images behind water.png, port.png, island.png
    opened,             \* main: the images Image.open was called on
    written,            \* main: the files written under data/
    main_grid_data,     \* main: its local grid_data
    main_ports,         \* main: its local ports
    main_islands,       \* main: its local islands
    ff_stack,           \* the work stack of the flood fill under way
    ff_visited_cluster, \* flood_fill_cluster: its local visited_cluster
    flc_all_visited,    \* find_largest_connected_component: its local all_visited
    flc_components      \* find_largest_connected_component: its local components

main_vars == <<files, opened, written, main_grid_data, main_ports, main_islands>>
fill_vars == <<ff_stack, ff_visited_cluster, flc_all_visited, flc_components>>

vars == <<pc, image, scale, color_args, colors, grid, largest_component,
          cluster_min_size, waypoint_type, pos, visited, cluster, clusters,
          coord, result, error, main_vars, fill_vars>>

-----------------------------------------------------------------------------
(* Bounds of the model *)

\* images have at most MaxCells pixels (width * height <= MaxCells)
MaxCells == 6
\* scale ranges over 1 .. MaxScale
MaxScale == 2
\* cluster_min_size ranges over 0 .. MaxClusterMin
MaxClusterMin == 2
\* image_to_screen_coords: small image sides range over 1 .. MaxSide
MaxSide == 4

-----------------------------------------------------------------------------
(* Program constants *)

SCREEN_WIDTH == 1280
SCREEN_HEIGHT == 720
\* default of is_non_black_pixel's threshold parameter
NonBlackThreshold == 10
\* default of classify_pixel's tolerance parameter
ClassifyTolerance == 30

\* Python's None; also the falsy value tested by "if not ocean_color"
None == <<>>
\* os.path.exists(image_path) is False
NoFile == [width |-> 0, height |-> 0, px |-> <<>>]
NoError == "none"

-----------------------------------------------------------------------------
(* Images *)

Black == <<0, 0, 0>>
White == <<255, 255, 255>>
\* the brightest background pixel and the dimmest non-background pixel
Dim   == <<10, 10, 10>>
Faint == <<0, 11, 0>>
\* the world map's flat colors: pink ocean, green land
Pink  == <<255, 174, 201>>
Green == <<34, 177, 76>>

Palettes == {{Black, White}, {Dim, Faint}, {Pink, Green}}

Cells(w, h) == (0 .. w - 1) \X (0 .. h - 1)

Sizes == {s \in (1 .. MaxCells) \X (1 .. MaxCells) : s[1] * s[2] <= MaxCells}

\* every image of at most MaxCells pixels painted with one of the palettes
Images ==
    UNION {UNION {{[width |-> s[1], height |-> s[2], px |-> f] :
                      f \in [Cells(s[1], s[2]) -> pal]} : pal \in Palettes} :
           s \in Sizes}

\* img.getpixel((x, y))
getpixel(img, x, y) == img.px[<<x, y>>]

\* img.getdata(): the pixels in row-major order
getdata(img) ==
    [i \in 1 .. img.width * img.height |->
        getpixel(img, (i - 1) % img.width, (i - 1) \div img.width)]

Max2(a, b) == IF a >= b THEN a ELSE b
Min2(a, b) == IF a <= b THEN a ELSE b

-----------------------------------------------------------------------------
(* generate_navigation_grid.py *)

\* analyze_pixel_colors: the colors by descending count; sorted() is stable, so
\* equal counts keep the order of first occurrence in getdata()
CountOf(data, c) == Cardinality({i \in DOMAIN data : data[i] = c})
FirstOf(data, c) == CHOOSE i \in DOMAIN data :
                        data[i] = c /\ \A j \in 1 .. i - 1 : data[j] # c

RECURSIVE SortByCount(_, _)
SortByCount(data, cs) ==
    IF cs = {} THEN <<>>
    ELSE LET top == CHOOSE c \in cs : \A d \in cs :
                        \/ CountOf(data, c) > CountOf(data, d)
                        \/ /\ CountOf(data, c) = CountOf(data, d)
                           /\ FirstOf(data, c) <= FirstOf(data, d)
         IN <<top>> \o SortByCount(data, cs \ {top})

analyze_pixel_colors(img) ==
    LET data == getdata(img)
    IN SortByCount(data, {data[i] : i \in DOMAIN data})

Pinkish(c)  == c[1] > 150 /\ c[2] > 100 /\ c[3] > 150
Greenish(c) == c[2] > c[1] /\ c[2] > c[3] /\ c[2] > 100
Dark(c)     == c[1] < 50 /\ c[2] < 50 /\ c[3] < 50

Heuristic(kind, c) ==
    IF kind = "ocean" THEN Pinkish(c)
    ELSE IF kind = "land" THEN Greenish(c) ELSE Dark(c)

\* "for color, _ in sorted_colors: if <heuristic>: ... break": the first color
\* of sorted_colors that passes the heuristic, or None
FirstMatching(sorted, kind) ==
    LET hits == {i \in DOMAIN sorted : Heuristic(kind, sorted[i])}
    IN IF hits = {} THEN None
       ELSE sorted[CHOOSE i \in hits : \A j \in hits : i <= j]

\* lines 152-182 of generate_navigation_grid: fill in the colors not passed in
detect_colors(sorted, args) ==
    LET ocean == IF args.ocean # None THEN args.ocean
                 ELSE IF FirstMatching(sorted, "ocean") # None
                      THEN FirstMatching(sorted, "ocean")
                      ELSE sorted[1]
        land  == IF args.land # None THEN args.land
                 ELSE IF FirstMatching(sorted, "land") # None
                      THEN FirstMatching(sorted, "land")
                      ELSE IF Len(sorted) > 1 THEN sorted[2] ELSE <<0, 255, 0>>
        edge  == IF args.edge # None THEN args.edge
                 ELSE IF FirstMatching(sorted, "edge") # None
                      THEN FirstMatching(sorted, "edge")
                      ELSE <<0, 0, 0>>
    IN [ocean |-> ocean, land |-> land, edge |-> edge]

\* color_distance squared; the square root is monotonic, so comparing squares
\* orders the distances as the code does
Sq(a) == a * a
color_distance2(c1, c2) == Sq(c1[1] - c2[1]) + Sq(c1[2] - c2[2]) + Sq(c1[3] - c2[3])

\* classify_pixel: min() over the dict returns the first key (ocean, land, edge)
\* with the least distance
classify_pixel(pixel, cols) ==
    LET dOcean == color_distance2(pixel, cols.ocean)
        dLand  == color_distance2(pixel, cols.land)
        dEdge  == color_distance2(pixel, cols.edge)
        min_type == IF dOcean <= dLand /\ dOcean <= dEdge THEN "ocean"
                    ELSE IF dLand <= dEdge THEN "land" ELSE "edge"
        dMin == IF min_type = "ocean" THEN dOcean
                ELSE IF min_type = "land" THEN dLand ELSE dEdge
    IN IF dMin <= Sq(ClassifyTolerance) THEN min_type ELSE "unknown"

\* the pixel sampled for grid cell (grid_x, grid_y): the cell's center, clamped
sample_x(img, sc, grid_x) == Min2(grid_x * sc + sc \div 2, img.width - 1)
sample_y(img, sc, grid_y) == Min2(grid_y * sc + sc \div 2, img.height - 1)

\* lines 189-216: the grid before connectivity filtering
rasterize_map(img, sc, cols) ==
    LET grid_width  == img.width \div sc
        grid_height == img.height \div sc
    IN [gy \in 1 .. grid_height |->
          [gx \in 1 .. grid_width |->
              classify_pixel(getpixel(img, sample_x(img, sc, gx - 1),
                                           sample_y(img, sc, gy - 1)),
                             cols) = "ocean"]]

\* grid[y][x] of the code
At(g, x, y) == g[y + 1][x + 1]

\* flood_fill_connected_component: the while loop, from a stack and a visited
\* set to the final visited set
RECURSIVE flood_fill_stack(_, _, _)
flood_fill_stack(g, stack, seen) ==
    IF stack = <<>> THEN seen
    ELSE LET p    == stack[Len(stack)]
             rest == SubSeq(stack, 1, Len(stack) - 1)
             x    == p[1]
             y    == p[2]
         IN IF p \in seen THEN flood_fill_stack(g, rest, seen)
            ELSE IF x < 0 \/ x >= Len(g[1]) \/ y < 0 \/ y >= Len(g)
                 THEN flood_fill_stack(g, rest, seen)
            ELSE IF ~At(g, x, y) THEN flood_fill_stack(g, rest, seen)
            ELSE flood_fill_stack(g,
                     rest \o << <<x + 1, y>>, <<x - 1, y>>,
                                <<x, y + 1>>, <<x, y - 1>> >>,
                     seen \cup {p})

flood_fill_connected_component(g, start_x, start_y) ==
    IF ~At(g, start_x, start_y) THEN {}
    ELSE flood_fill_stack(g, << <<start_x, start_y>> >>, {})

\* find_largest_connected_component, lines 113-119: the scan from row-major
\* position i on, with the components found so far
RECURSIVE find_components(_, _, _, _)
find_components(g, i, all_visited, components) ==
    LET width == Len(g[1])
        x == i % width
        y == i \div width
    IN IF width = 0 \/ i >= width * Len(g) THEN components
       ELSE IF At(g, x, y) /\ <<x, y>> \notin all_visited
            THEN LET component == flood_fill_connected_component(g, x, y)
                 IN find_components(g, i + 1, all_visited \cup component,
                                    Append(components, component))
            ELSE find_components(g, i + 1, all_visited, components)

\* a max() that keeps the last of several greatest components
largest_of_last(components) ==
    components[CHOOSE i \in DOMAIN components :
                  /\ \A j \in DOMAIN components :
                        Cardinality(components[j]) <= Cardinality(components[i])
                  /\ \A j \in i + 1 .. Len(components) :
                        Cardinality(components[j]) < Cardinality(components[i])]

\* max(components, key=len): the first component of the greatest length
largest_of(components) ==
    components[CHOOSE i \in DOMAIN components :
                  /\ \A j \in DOMAIN components :
                        Cardinality(components[j]) <= Cardinality(components[i])
                  /\ \A j \in 1 .. i - 1 :
                        Cardinality(components[j]) < Cardinality(components[i])]

\* find_largest_connected_component of a grid with at least one row
find_largest_connected_component(g) ==
    LET components == find_components(g, 0, {}, <<>>)
    IN IF components = <<>> THEN {} ELSE largest_of(components)

\* a filtering step that is left out
keep_only_skipped(g, largest) == g

\* a filtering step with the membership test inverted
keep_only_inverted(g, largest) ==
    [gy \in 1 .. Len(g) |->
        [gx \in 1 .. Len(g[gy]) |->
            IF g[gy][gx] /\ <<gx - 1, gy - 1>> \in largest
            THEN FALSE ELSE g[gy][gx]]]

\* lines 222-225: flip every true cell outside largest to false
keep_only(g, largest) ==
    [gy \in 1 .. Len(g) |->
        [gx \in 1 .. Len(g[gy]) |->
            IF g[gy][gx] /\ <<gx - 1, gy - 1>> \notin largest
            THEN FALSE ELSE g[gy][gx]]]

-----------------------------------------------------------------------------
(* generate_pathing_from_layers.py *)

\* is_non_black_pixel with the default threshold
is_non_black_pixel(pixel) ==
    Max2(Max2(pixel[1], pixel[2]), pixel[3]) > NonBlackThreshold

\* generate_navigation_grid_from_water, lines 282-310
rasterize_water(img, sc) ==
    LET grid_width  == img.width \div sc
        grid_height == img.height \div sc
    IN [gy \in 1 .. grid_height |->
          [gx \in 1 .. grid_width |->
              is_non_black_pixel(getpixel(img, Min2((gx - 1) * sc + sc \div 2,
                                                    img.width - 1),
                                               Min2((gy - 1) * sc + sc \div 2,
                                                    img.height - 1)))]]

\* the same loops without the diagonal offsets
Offsets4 == << <<-1, 0>>, <<0, -1>>, <<0, 1>>, <<1, 0>> >>

\* lines 75-79: (dx, dy) in the order of the two loops, (0, 0) skipped
NeighborOffsets ==
    << <<-1, -1>>, <<-1, 0>>, <<-1, 1>>, <<0, -1>>, <<0, 1>>,
       <<1, -1>>, <<1, 0>>, <<1, 1>> >>

\* lines 75-81: the neighbors of (x, y) not yet in visited_cluster
RECURSIVE push_neighbors(_, _, _, _, _)
push_neighbors(stack, x, y, visited_cluster, k) ==
    IF k > Len(NeighborOffsets) THEN stack
    ELSE LET n == <<x + NeighborOffsets[k][1], y + NeighborOffsets[k][2]>>
         IN push_neighbors(IF n \notin visited_cluster
                           THEN Append(stack, n) ELSE stack,
                           x, y, visited_cluster, k + 1)

\* flood_fill_cluster: the while loop, from a stack, visited_cluster and the
\* cluster so far to the final cluster (a list, in the order of collection)
RECURSIVE flood_fill_cluster_stack(_, _, _, _)
flood_fill_cluster_stack(img, stack, visited_cluster, found) ==
    IF stack = <<>> THEN found
    ELSE LET p    == stack[Len(stack)]
             rest == SubSeq(stack, 1, Len(stack) - 1)
             x    == p[1]
             y    == p[2]
         IN IF p \in visited_cluster
            THEN flood_fill_cluster_stack(img, rest, visited_cluster, found)
            ELSE IF x < 0 \/ x >= img.width \/ y < 0 \/ y >= img.height
                 THEN flood_fill_cluster_stack(img, rest, visited_cluster, found)
            ELSE IF ~is_non_black_pixel(getpixel(img, x, y))
                 THEN flood_fill_cluster_stack(img, rest, visited_cluster, found)
            ELSE flood_fill_cluster_stack(img,
                     push_neighbors(rest, x, y, visited_cluster \cup {p}, 1),
                     visited_cluster \cup {p}, Append(found, p))

\* flood_fill_cluster: the list returned; every pixel of it is also added to
\* visited_set
flood_fill_cluster(img, start_x, start_y, visited_set) ==
    IF <<start_x, start_y>> \in visited_set THEN <<>>
    ELSE flood_fill_cluster_stack(img, << <<start_x, start_y>> >>, {}, <<>>)

Range(seq) == {seq[i] : i \in DOMAIN seq}

RECURSIVE SumSeq(_)
SumSeq(seq) == IF seq = <<>> THEN 0 ELSE seq[1] + SumSeq(Tail(seq))

\* Python's // on integers: the floor of the quotient (den > 0)
FloorDiv(num, den) == num \div den

\* a mean rounded to the nearest integer
find_cluster_center_rounded(cl) ==
    IF cl = <<>> THEN None
    ELSE LET count == Len(cl)
         IN <<(2 * SumSeq([i \in DOMAIN cl |-> cl[i][1]]) + count) \div (2 * count),
              (2 * SumSeq([i \in DOMAIN cl |-> cl[i][2]]) + count) \div (2 * count)>>

\* find_cluster_center
find_cluster_center(cl) ==
    IF cl = <<>> THEN None
    ELSE LET sum_x == SumSeq([i \in DOMAIN cl |-> cl[i][1]])
             sum_y == SumSeq([i \in DOMAIN cl |-> cl[i][2]])
             count == Len(cl)
         IN <<FloorDiv(sum_x, count), FloorDiv(sum_y, count)>>

\* int(num / den): true division, then truncation toward zero.  The float
\* quotient of integers of this size lies on the same side of every integer as
\* the exact quotient, so the result is the truncated exact quotient.
IntOfQuotient(num, den) ==
    IF num >= 0 THEN num \div den ELSE -((-num) \div den)

\* a conversion that forgets to flip the vertical axis
image_to_screen_coords_unflipped(image_x, image_y, image_width, image_height) ==
    <<IntOfQuotient(image_x * SCREEN_WIDTH, image_width),
      IntOfQuotient(image_y * SCREEN_HEIGHT, image_height)>>

\* a conversion that rounds up
image_to_screen_coords_ceil(image_x, image_y, image_width, image_height) ==
    <<IntOfQuotient(image_x * SCREEN_WIDTH + image_width - 1, image_width),
      IntOfQuotient((image_height - image_y) * SCREEN_HEIGHT + image_height - 1,
                    image_height)>>

\* image_to_screen_coords
image_to_screen_coords(image_x, image_y, image_width, image_height) ==
    <<IntOfQuotient(image_x * SCREEN_WIDTH, image_width),
      IntOfQuotient((image_height - image_y) * SCREEN_HEIGHT, image_height)>>

\* sorted() of a set of (x, y) tuples: by x, then by y
RECURSIVE SortCells(_)
SortCells(cells) ==
    IF cells = {} THEN <<>>
    ELSE LET least == CHOOSE c \in cells : \A d \in cells :
                          c[1] < d[1] \/ (c[1] = d[1] /\ c[2] <= d[2])
         IN <<least>> \o SortCells(cells \ {least})

\* the cells of the cluster's pixels without the test against the grid's extent
generate_grid_squares_unbounded(cl, image_width, image_height, sc) ==
    IF cl = <<>> THEN <<>>
    ELSE SortCells({<<FloorDiv(cl[i][1], sc), FloorDiv(cl[i][2], sc)>> :
                       i \in DOMAIN cl})

\* generate_grid_squares_for_cluster
generate_grid_squares_for_cluster(cl, image_width, image_height, sc) ==
    IF cl = <<>> THEN <<>>
    ELSE LET grid_width  == FloorDiv(image_width, sc)
             grid_height == FloorDiv(image_height, sc)
             grid_cells ==
                 {c \in {<<FloorDiv(cl[i][1], sc), FloorDiv(cl[i][2], sc)>> :
                            i \in DOMAIN cl} :
                     /\ 0 <= c[1] /\ c[1] < grid_width
                     /\ 0 <= c[2] /\ c[2] < grid_height}
         IN SortCells(grid_cells)

\* str.capitalize() of the two waypoint types
Capitalize(t) == IF t = "port" THEN "Port" ELSE "Island"

\* lines 195-223: the waypoint dict of clusters[i + 1], the i-th cluster kept.
\* A formatted string is the tuple of its parts.
waypoint_of(cl, i, wtype, width, height, sc) ==
    LET center_image  == find_cluster_center(cl)
        center_screen == image_to_screen_coords(center_image[1], center_image[2],
                                                width, height)
        grid_squares  == generate_grid_squares_for_cluster(cl, width, height, sc)
    IN [id |-> <<wtype, "_", i>>,
        position |-> [x |-> center_screen[1], y |-> center_screen[2]],
        type |-> wtype,
        metadata |-> [name |-> <<Capitalize(wtype), " ", i + 1>>,
                      cluster_size |-> Len(cl),
                      image_position |-> [x |-> center_image[1],
                                          y |-> center_image[2]]],
        grid_squares |-> [k \in DOMAIN grid_squares |->
                             [x |-> grid_squares[k][1], y |-> grid_squares[k][2]]]]

\* lines 193-224: the loop over enumerate(clusters), from index i on
RECURSIVE synthesize(_, _, _, _, _, _, _)
synthesize(cls, i, waypoints, wtype, width, height, sc) ==
    IF i >= Len(cls) THEN waypoints
    ELSE synthesize(cls, i + 1,
                    IF find_cluster_center(cls[i + 1]) # None
                    THEN Append(waypoints,
                                waypoint_of(cls[i + 1], i, wtype, width, height, sc))
                    ELSE waypoints,
                    wtype, width, height, sc)

\* sorted(ports, key=x) with the largest X first
RECURSIVE sorted_by_x_descending(_, _)
sorted_by_x_descending(ports, left) ==
    IF left = {} THEN <<>>
    ELSE LET first == CHOOSE i \in left : \A j \in left :
                          \/ ports[i].position.x > ports[j].position.x
                          \/ ports[i].position.x = ports[j].position.x /\ i <= j
         IN <<first>> \o sorted_by_x_descending(ports, left \ {first})

\* line 242: sorted(ports, key=lambda p: p['position']['x']) as the list of the
\* indices in ports of the dicts it holds; sorted() is stable, so equal keys
\* keep their order in ports
RECURSIVE sorted_by_x(_, _)
sorted_by_x(ports, left) ==
    IF left = {} THEN <<>>
    ELSE LET first == CHOOSE i \in left : \A j \in left :
                          \/ ports[i].position.x < ports[j].position.x
                          \/ ports[i].position.x = ports[j].position.x /\ i <= j
         IN <<first>> \o sorted_by_x(ports, left \ {first})

\* lines 244-253: the name stored through sorted_ports[k - 1]
port_name(ports, sorted_ports, k) ==
    IF Len(ports) = 2
    THEN IF k = 1 THEN <<"Caribbean Port">> ELSE <<"European Port">>
    ELSE <<"Port ", k, " (x=", ports[sorted_ports[k]].position.x, ")">>

\* an assign_port_names that returns the sorted list
assign_port_names_returning_sorted(ports) ==
    IF Len(ports) = 0 THEN ports
    ELSE LET sorted_ports == sorted_by_x(ports, DOMAIN ports)
         IN [k \in DOMAIN sorted_ports |->
                [ports[sorted_ports[k]] EXCEPT
                    !.metadata.name = port_name(ports, sorted_ports, k)]]

\* assign_port_names: the dicts of sorted_ports are the dicts of ports, so the
\* names stored through sorted_ports show in ports, which is what is returned
assign_port_names(ports) ==
    IF Len(ports) = 0 THEN ports
    ELSE LET sorted_ports == sorted_by_x(ports, DOMAIN ports)
         IN [i \in DOMAIN ports |->
                LET k == CHOOSE k \in DOMAIN sorted_ports : sorted_ports[k] = i
                IN [ports[i] EXCEPT
                       !.metadata.name = port_name(ports, sorted_ports, k)]]

-----------------------------------------------------------------------------
(* Grid generation: generate_navigation_grid and                          *)
(* generate_navigation_grid_from_water, each run on one image             *)

NoColors == [ocean |-> None, land |-> None, edge |-> None]
\* main() passes no colors; a caller may pass the documented ones
ColorArgs == {NoColors, [ocean |-> Pink, land |-> Green, edge |-> Black]}

\* the variables of detect_waypoints and image_to_screen_coords, unused here
WaypointIdle ==
    /\ cluster_min_size = 0
    /\ waypoint_type = "none"
    /\ pos = 0
    /\ visited = {}
    /\ cluster = <<>>
    /\ clusters = <<>>
    /\ coord = None

GridIdle ==
    /\ color_args = NoColors
    /\ colors = None
    /\ grid = <<>>
    /\ largest_component = {}

\* the variables of main, unused when one function is run on its own
MainIdle ==
    /\ files = None
    /\ opened = {}
    /\ written = {}
    /\ main_grid_data = None
    /\ main_ports = None
    /\ main_islands = None

\* the variables of the flood fills run step by step, unused elsewhere
FillIdle ==
    /\ ff_stack = <<>>
    /\ ff_visited_cluster = {}
    /\ flc_all_visited = {}
    /\ flc_components = <<>>

InitGrid ==
    /\ pc \in {"gng_start", "water_start"}
    /\ image \in Images \cup {NoFile}
    /\ scale \in 1 .. MaxScale
    /\ color_args \in IF pc = "gng_start" THEN ColorArgs ELSE {NoColors}
    /\ colors = None
    /\ grid = <<>>
    /\ largest_component = {}
    /\ WaypointIdle
    /\ result = None
    /\ error = NoError
    /\ MainIdle
    /\ FillIdle

\* lines 149-187: Image.open raises on a missing file; otherwise the colors
\* not passed in are detected from the palette
GngDetectColors ==
    /\ pc = "gng_start"
    /\ IF image = NoFile
       THEN /\ pc' = "gng_raised"
            /\ error' = "FileNotFoundError"
            /\ UNCHANGED colors
       ELSE /\ pc' = "gng_colors"
            /\ colors' = detect_colors(analyze_pixel_colors(image), color_args)
            /\ UNCHANGED error
    /\ UNCHANGED <<image, scale, color_args, grid, largest_component,
                   cluster_min_size, waypoint_type, pos, visited, cluster,
                   clusters, coord, result,
                   main_vars, fill_vars>>

\* lines 189-216
GngRasterize ==
    /\ pc = "gng_colors"
    /\ grid' = rasterize_map(image, scale, colors)
    /\ pc' = "gng_grid"
    /\ UNCHANGED <<image, scale, color_args, colors, largest_component,
                   cluster_min_size, waypoint_type, pos, visited, cluster,
                   clusters, coord, result, error,
                   main_vars, fill_vars>>

\* line 219: len(grid[0]) raises IndexError on a grid without rows
GngFindLargest ==
    /\ pc = "gng_grid"
    /\ IF Len(grid) = 0
       THEN /\ pc' = "gng_raised"
            /\ error' = "IndexError"
            /\ UNCHANGED largest_component
       ELSE /\ pc' = "gng_largest"
            /\ largest_component' = find_largest_connected_component(grid)
            /\ UNCHANGED error
    /\ UNCHANGED <<image, scale, color_args, colors, grid, cluster_min_size,
                   waypoint_type, pos, visited, cluster, clusters, coord,
                   result,
                   main_vars, fill_vars>>

\* lines 221-225
GngKeepLargest ==
    /\ pc = "gng_largest"
    /\ grid' = keep_only(grid, largest_component)
    /\ pc' = "gng_pruned"
    /\ UNCHANGED <<image, scale, color_args, colors, largest_component,
                   cluster_min_size, waypoint_type, pos, visited, cluster,
                   clusters, coord, result, error,
                   main_vars, fill_vars>>

\* lines 227-248: the statistics divide by total_cells, then the dict is returned
GngReturn ==
    /\ pc = "gng_pruned"
    /\ LET grid_width  == image.width \div scale
           grid_height == image.height \div scale
       IN IF grid_width * grid_height = 0
          THEN /\ pc' = "gng_raised"
               /\ error' = "ZeroDivisionError"
               /\ UNCHANGED result
          ELSE /\ pc' = "gng_done"
               /\ result' = [grid |-> grid, width |-> grid_width,
                             height |-> grid_height, scale |-> scale,
                             image_width |-> image.width,
                             image_height |-> image.height,
                             colors |-> colors]
               /\ UNCHANGED error
    /\ UNCHANGED <<image, scale, color_args, colors, grid, largest_component,
                   cluster_min_size, waypoint_type, pos, visited, cluster,
                   clusters, coord,
                   main_vars, fill_vars>>

\* generate_navigation_grid_from_water, lines 270-310
WaterRasterize ==
    /\ pc = "water_start"
    /\ IF image = NoFile
       THEN /\ pc' = "water_done"
            /\ result' = None
            /\ UNCHANGED grid
       ELSE /\ pc' = "water_grid"
            /\ grid' = rasterize_water(image, scale)
            /\ UNCHANGED result
    /\ UNCHANGED <<image, scale, color_args, colors, largest_component,
                   cluster_min_size, waypoint_type, pos, visited, cluster,
                   clusters, coord, error,
                   main_vars, fill_vars>>

\* lines 312-326: the statistics divide by total_cells, then the dict is returned
WaterReturn ==
    /\ pc = "water_grid"
    /\ LET grid_width  == image.width \div scale
           grid_height == image.height \div scale
       IN IF grid_width * grid_height = 0
          THEN /\ pc' = "water_raised"
               /\ error' = "ZeroDivisionError"
               /\ UNCHANGED result
          ELSE /\ pc' = "water_done"
               /\ result' = [grid |-> grid, width |-> grid_width,
                             height |-> grid_height, scale |-> scale,
                             image_width |-> image.width,
                             image_height |-> image.height]
               /\ UNCHANGED error
    /\ UNCHANGED <<image, scale, color_args, colors, grid, largest_component,
                   cluster_min_size, waypoint_type, pos, visited, cluster,
                   clusters, coord,
                   main_vars, fill_vars>>

NextGrid ==
    \/ GngDetectColors
    \/ GngRasterize
    \/ GngFindLargest
    \/ GngKeepLargest
    \/ GngReturn
    \/ WaterRasterize
    \/ WaterReturn

Spec == InitGrid /\ [][NextGrid]_vars

-----------------------------------------------------------------------------
(* detect_waypoints, run on one marker image, and assign_port_names *)

\* marker layers are black with bright ink
MarkerImages == {img \in Images : \A c \in DOMAIN img.px : img.px[c] \notin {Pink, Green}}

InitWaypoints ==
    /\ pc = "dw_start"
    /\ image \in MarkerImages \cup {NoFile}
    /\ scale \in 1 .. MaxScale
    /\ cluster_min_size \in 0 .. MaxClusterMin
    /\ waypoint_type \in {"port", "island"}
    /\ pos = 0
    /\ visited = {}
    /\ cluster = <<>>
    /\ clusters = <<>>
    /\ coord = None
    /\ GridIdle
    /\ result = None
    /\ error = NoError
    /\ MainIdle
    /\ FillIdle

\* a filter that also drops the clusters of exactly the minimum size
keeps_cluster_above(found, min_size) == Len(found) > min_size

\* line 187: the test that keeps a cluster
keeps_cluster(found, min_size) == Len(found) >= min_size

\* lines 167-180: a missing image returns the empty list
DwOpen ==
    /\ pc = "dw_start"
    /\ IF image = NoFile
       THEN pc' = "dw_done" /\ result' = <<>>
       ELSE pc' = "dw_scan" /\ UNCHANGED result
    /\ UNCHANGED <<image, scale, color_args, colors, grid, largest_component,
                   cluster_min_size, waypoint_type, pos, visited, cluster,
                   clusters, coord, error,
                   main_vars, fill_vars>>

\* lines 182-188: one iteration of the scan, at pixel (pos % width, pos // width)
DwScanPixel ==
    /\ pc = "dw_scan"
    /\ pos < image.width * image.height
    /\ LET x == pos % image.width
           y == pos \div image.width
       IN IF is_non_black_pixel(getpixel(image, x, y)) /\ <<x, y>> \notin visited
          THEN LET found == flood_fill_cluster(image, x, y, visited)
               IN /\ cluster' = found
                  /\ visited' = visited \cup Range(found)
                  /\ clusters' = IF keeps_cluster(found, cluster_min_size)
                                 THEN Append(clusters, found) ELSE clusters
          ELSE UNCHANGED <<cluster, visited, clusters>>
    /\ pos' = pos + 1
    /\ UNCHANGED <<pc, image, scale, color_args, colors, grid, largest_component,
                   cluster_min_size, waypoint_type, coord, result, error,
                   main_vars, fill_vars>>

\* lines 190-227: the scan is over; the clusters kept become waypoints
DwSynthesize ==
    /\ pc = "dw_scan"
    /\ pos = image.width * image.height
    /\ result' = synthesize(clusters, 0, <<>>, waypoint_type,
                            image.width, image.height, scale)
    /\ pc' = "dw_done"
    /\ UNCHANGED <<image, scale, color_args, colors, grid, largest_component,
                   cluster_min_size, waypoint_type, pos, visited, cluster,
                   clusters, coord, error,
                   main_vars, fill_vars>>

\* assign_port_names applied to the ports detected
AssignPortNames ==
    /\ pc = "dw_done"
    /\ waypoint_type = "port"
    /\ result' = assign_port_names(result)
    /\ pc' = "apn_done"
    /\ UNCHANGED <<image, scale, color_args, colors, grid, largest_component,
                   cluster_min_size, waypoint_type, pos, visited, cluster,
                   clusters, coord, error,
                   main_vars, fill_vars>>

NextWaypoints ==
    \/ DwOpen
    \/ DwScanPixel
    \/ DwSynthesize
    \/ AssignPortNames

SpecWaypoints == InitWaypoints /\ [][NextWaypoints]_vars

-----------------------------------------------------------------------------
(* image_to_screen_coords, run on one pixel of one image size *)

\* widths and heights around the screen's, where the scale factor crosses 1
WideWidths  == SCREEN_WIDTH - 1 .. SCREEN_WIDTH + 3
TallHeights == SCREEN_HEIGHT - 1 .. SCREEN_HEIGHT + 7

\* the two axes are converted independently: one axis takes every pixel of a
\* side around the screen's while the other stays small
CoordSizes ==
    ((1 .. MaxSide) \X (1 .. MaxSide))
        \cup (WideWidths \X (1 .. 2))
        \cup ((1 .. 2) \X TallHeights)

InitCoords ==
    /\ pc = "coords_start"
    /\ \E s \in CoordSizes : \E x \in 0 .. s[1] - 1 : \E y \in 0 .. s[2] - 1 :
          coord = [image_x |-> x, image_y |-> y,
                   image_width |-> s[1], image_height |-> s[2]]
    /\ image = NoFile
    /\ scale = 1
    /\ cluster_min_size = 0
    /\ waypoint_type = "none"
    /\ pos = 0
    /\ visited = {}
    /\ cluster = <<>>
    /\ clusters = <<>>
    /\ GridIdle
    /\ result = None
    /\ error = NoError
    /\ MainIdle
    /\ FillIdle

Convert ==
    /\ pc = "coords_start"
    /\ result' = image_to_screen_coords(coord.image_x, coord.image_y,
                                        coord.image_width, coord.image_height)
    /\ pc' = "coords_done"
    /\ UNCHANGED <<image, scale, color_args, colors, grid, largest_component,
                   cluster_min_size, waypoint_type, pos, visited, cluster,
                   clusters, coord, error,
                   main_vars, fill_vars>>

NextCoords == Convert

SpecCoords == InitCoords /\ [][NextCoords]_vars

-----------------------------------------------------------------------------
(* main of generate_pathing_from_layers.py, run on the three layer images *)

\* the layer images of main are one row of at most MaxMainWidth pixels
MaxMainWidth == 2

MainImages ==
    {img \in MarkerImages :
        /\ img.height = 1
        /\ img.width <= MaxMainWidth
        /\ \A c \in DOMAIN img.px : img.px[c] \in {Black, White}}

\* how a call ends: with a value returned, or with an exception raised
Returned(v) == [raised |-> NoError, value |-> v]
Raised(e) == [raised |-> e, value |-> None]

\* generate_navigation_grid_from_water for any scale >= 0: line 283 divides by
\* scale, line 316 by total_cells
generate_navigation_grid_from_water(img, sc) ==
    IF img = NoFile THEN Returned(None)
    ELSE IF sc = 0 THEN Raised("ZeroDivisionError")
    ELSE LET grid_width  == img.width \div sc
             grid_height == img.height \div sc
         IN IF grid_width * grid_height = 0
            THEN Raised("ZeroDivisionError")
            ELSE Returned([grid |-> rasterize_water(img, sc),
                           width |-> grid_width, height |-> grid_height,
                           scale |-> sc, image_width |-> img.width,
                           image_height |-> img.height])

\* lines 179-188: the scan loop of detect_waypoints from row-major position p on
RECURSIVE scan_clusters(_, _, _, _, _)
scan_clusters(img, p, visited_set, kept, min_size) ==
    IF p = img.width * img.height THEN kept
    ELSE LET x == p % img.width
             y == p \div img.width
         IN IF is_non_black_pixel(getpixel(img, x, y)) /\ <<x, y>> \notin visited_set
            THEN LET found == flood_fill_cluster(img, x, y, visited_set)
                 IN scan_clusters(img, p + 1, visited_set \cup Range(found),
                                  IF keeps_cluster(found, min_size)
                                  THEN Append(kept, found) ELSE kept,
                                  min_size)
            ELSE scan_clusters(img, p + 1, visited_set, kept, min_size)

\* detect_waypoints for any scale >= 0: the first cluster kept reaches
\* generate_grid_squares_for_cluster, whose line 141 divides by scale
detect_waypoints(img, wtype, min_size, sc) ==
    IF img = NoFile THEN Returned(<<>>)
    ELSE LET kept == scan_clusters(img, 0, {}, <<>>, min_size)
         IN IF kept # <<>> /\ sc = 0
            THEN Raised("ZeroDivisionError")
            ELSE Returned(synthesize(kept, 0, <<>>, wtype,
                                     img.width, img.height, sc))

\* the variables of the single-function runs, unused by main
function_vars == <<image, color_args, colors, grid, largest_component,
                   waypoint_type, pos, visited, cluster, clusters, coord, result>>

\* argparse accepts any integer for --scale and --cluster-min-size
InitMain ==
    /\ pc = "main_start"
    /\ files \in [water : MainImages \cup {NoFile},
                  port : MainImages \cup {NoFile},
                  island : MainImages \cup {NoFile}]
    /\ scale \in 0 .. MaxScale
    /\ cluster_min_size \in 0 .. MaxClusterMin
    /\ opened = {}
    /\ written = {}
    /\ main_grid_data = None
    /\ main_ports = None
    /\ main_islands = None
    /\ image = NoFile
    /\ waypoint_type = "none"
    /\ pos = 0
    /\ visited = {}
    /\ cluster = <<>>
    /\ clusters = <<>>
    /\ coord = None
    /\ GridIdle
    /\ FillIdle
    /\ result = None
    /\ error = NoError

\* lines 418-447: nothing checks args; os.makedirs creates data/ and no file;
\* the water layer is rasterized and, if a dict came back, saved twice
MainWater ==
    /\ pc = "main_start"
    /\ LET r == generate_navigation_grid_from_water(files.water, scale)
       IN /\ opened' = IF files.water = NoFile THEN opened
                       ELSE opened \cup {"water.png"}
          /\ IF r.raised # NoError
             THEN /\ pc' = "main_raised"
                  /\ error' = r.raised
                  /\ UNCHANGED <<main_grid_data, written>>
             ELSE /\ pc' = "main_ports"
                  /\ main_grid_data' = r.value
                  /\ written' = IF r.value # None
                                THEN written \cup {"navigation_grid.rb",
                                                   "navigation_grid.json"}
                                ELSE written
                  /\ UNCHANGED error
    /\ UNCHANGED <<scale, cluster_min_size, files, main_ports, main_islands,
                   function_vars, fill_vars>>

\* lines 449-455: a non-empty list of ports is named and saved
MainPorts ==
    /\ pc = "main_ports"
    /\ LET r == detect_waypoints(files.port, "port", cluster_min_size, scale)
       IN /\ opened' = IF files.port = NoFile THEN opened
                       ELSE opened \cup {"port.png"}
          /\ IF r.raised # NoError
             THEN /\ pc' = "main_raised"
                  /\ error' = r.raised
                  /\ UNCHANGED <<main_ports, written>>
             ELSE /\ pc' = "main_islands"
                  /\ main_ports' = IF r.value # <<>>
                                   THEN assign_port_names(r.value) ELSE r.value
                  /\ written' = IF r.value # <<>>
                                THEN written \cup {"ports.json"} ELSE written
                  /\ UNCHANGED error
    /\ UNCHANGED <<scale, cluster_min_size, files, main_grid_data, main_islands,
                   function_vars, fill_vars>>

\* lines 457-461: a non-empty list of islands is saved
MainIslands ==
    /\ pc = "main_islands"
    /\ LET r == detect_waypoints(files.island, "island", cluster_min_size, scale)
       IN /\ opened' = IF files.island = NoFile THEN opened
                       ELSE opened \cup {"island.png"}
          /\ IF r.raised # NoError
             THEN /\ pc' = "main_raised"
                  /\ error' = r.raised
                  /\ UNCHANGED <<main_islands, written>>
             ELSE /\ pc' = "main_report"
                  /\ main_islands' = r.value
                  /\ written' = IF r.value # <<>>
                                THEN written \cup {"islands.json"} ELSE written
                  /\ UNCHANGED error
    /\ UNCHANGED <<scale, cluster_min_size, files, main_grid_data, main_ports,
                   function_vars, fill_vars>>

\* lines 463-476: the closing report
MainReport ==
    /\ pc = "main_report"
    /\ pc' = "main_done"
    /\ UNCHANGED <<scale, cluster_min_size, error, main_vars, function_vars,
                   fill_vars>>

NextMain ==
    \/ MainWater
    \/ MainPorts
    \/ MainIslands
    \/ MainReport

SpecMain == InitMain /\ [][NextMain]_vars

-----------------------------------------------------------------------------
(* The two flood fills inside their scans, one iteration of "while stack" *)
(* per step                                                               *)

\* black and white marker layers
FillImages ==
    {img \in MarkerImages : \A c \in DOMAIN img.px : img.px[c] \in {Black, White}}

\* every grid of booleans of at most MaxCells cells and at least one row
FillGrids ==
    UNION {[1 .. s[2] -> [1 .. s[1] -> BOOLEAN]] : s \in Sizes}

\* a test that lets a pixel popped a second time through
never_in_cluster(x, y, seen) == FALSE

\* flood_fill_cluster, line 61: the pixel popped was collected by this fill
already_in_cluster(x, y, seen) == <<x, y>> \in seen

InitFill ==
    /\ pc \in {"fc_scan", "cc_scan"}
    /\ IF pc = "fc_scan"
       THEN /\ image \in FillImages
            /\ cluster_min_size \in 0 .. MaxClusterMin
            /\ grid = <<>>
       ELSE /\ image = NoFile
            /\ cluster_min_size = 0
            /\ grid \in FillGrids
    /\ pos = 0
    /\ visited = {}
    /\ cluster = <<>>
    /\ clusters = <<>>
    /\ FillIdle
    /\ scale = 1
    /\ color_args = NoColors
    /\ colors = None
    /\ largest_component = {}
    /\ waypoint_type = "none"
    /\ coord = None
    /\ result = None
    /\ error = NoError
    /\ MainIdle

\* detect_waypoints, lines 182-186: the scan reaches pixel pos; a non-black
\* pixel not yet visited starts flood_fill_cluster (lines 50-56: it is not in
\* visited_set, so the stack gets it)
FcScan ==
    /\ pc = "fc_scan"
    /\ pos < image.width * image.height
    /\ LET x == pos % image.width
           y == pos \div image.width
       IN IF is_non_black_pixel(getpixel(image, x, y)) /\ <<x, y>> \notin visited
          THEN /\ pc' = "fc_fill"
               /\ ff_stack' = << <<x, y>> >>
               /\ ff_visited_cluster' = {}
               /\ cluster' = <<>>
               /\ UNCHANGED pos
          ELSE /\ pos' = pos + 1
               /\ UNCHANGED <<pc, ff_stack, ff_visited_cluster, cluster>>
    /\ UNCHANGED <<image, scale, color_args, colors, grid, largest_component,
                   cluster_min_size, waypoint_type, visited, clusters, coord,
                   result, error, main_vars, flc_all_visited, flc_components>>

\* flood_fill_cluster, lines 58-81: one iteration of the while loop
FcFillStep ==
    /\ pc = "fc_fill"
    /\ ff_stack # <<>>
    /\ LET p    == ff_stack[Len(ff_stack)]
           rest == SubSeq(ff_stack, 1, Len(ff_stack) - 1)
           x    == p[1]
           y    == p[2]
       IN IF \/ already_in_cluster(x, y, ff_visited_cluster)
             \/ x < 0 \/ x >= image.width \/ y < 0 \/ y >= image.height
             \/ ~is_non_black_pixel(getpixel(image, x, y))
          THEN /\ ff_stack' = rest
               /\ UNCHANGED <<ff_visited_cluster, cluster, visited>>
          ELSE /\ ff_visited_cluster' = ff_visited_cluster \cup {p}
               /\ cluster' = Append(cluster, p)
               /\ visited' = visited \cup {p}
               /\ ff_stack' = push_neighbors(rest, x, y,
                                             ff_visited_cluster \cup {p}, 1)
    /\ UNCHANGED <<pc, image, scale, color_args, colors, grid, largest_component,
                   cluster_min_size, waypoint_type, pos, clusters, coord,
                   result, error, main_vars, flc_all_visited, flc_components>>

\* flood_fill_cluster, line 83, and detect_waypoints, lines 187-188: the stack
\* is empty, the cluster is returned and kept if it is large enough
FcFillReturn ==
    /\ pc = "fc_fill"
    /\ ff_stack = <<>>
    /\ clusters' = IF keeps_cluster(cluster, cluster_min_size)
                   THEN Append(clusters, cluster) ELSE clusters
    /\ pos' = pos + 1
    /\ pc' = "fc_scan"
    /\ UNCHANGED <<image, scale, color_args, colors, grid, largest_component,
                   cluster_min_size, waypoint_type, visited, cluster, coord,
                   result, error, main_vars, fill_vars>>

\* detect_waypoints, line 190: the scan is over
FcScanEnd ==
    /\ pc = "fc_scan"
    /\ pos = image.width * image.height
    /\ pc' = "fc_done"
    /\ UNCHANGED <<image, scale, color_args, colors, grid, largest_component,
                   cluster_min_size, waypoint_type, pos, visited, cluster,
                   clusters, coord, result, error, main_vars, fill_vars>>

\* find_largest_connected_component, lines 114-116: the scan reaches cell pos;
\* an accessible cell not yet in all_visited starts
\* flood_fill_connected_component (lines 69-75)
CcScan ==
    /\ pc = "cc_scan"
    /\ pos < Len(grid[1]) * Len(grid)
    /\ LET x == pos % Len(grid[1])
           y == pos \div Len(grid[1])
       IN IF At(grid, x, y) /\ <<x, y>> \notin flc_all_visited
          THEN /\ pc' = "cc_fill"
               /\ ff_stack' = << <<x, y>> >>
               /\ visited' = {}
               /\ UNCHANGED pos
          ELSE /\ pos' = pos + 1
               /\ UNCHANGED <<pc, ff_stack, visited>>
    /\ UNCHANGED <<image, scale, color_args, colors, grid, largest_component,
                   cluster_min_size, waypoint_type, cluster, clusters, coord,
                   result, error, main_vars, ff_visited_cluster,
                   flc_all_visited, flc_components>>

\* flood_fill_connected_component, lines 77-93: one iteration of the while loop
CcFillStep ==
    /\ pc = "cc_fill"
    /\ ff_stack # <<>>
    /\ LET p    == ff_stack[Len(ff_stack)]
           rest == SubSeq(ff_stack, 1, Len(ff_stack) - 1)
           x    == p[1]
           y    == p[2]
       IN IF \/ p \in visited
             \/ x < 0 \/ x >= Len(grid[1]) \/ y < 0 \/ y >= Len(grid)
             \/ ~At(grid, x, y)
          THEN /\ ff_stack' = rest
               /\ UNCHANGED visited
          ELSE /\ visited' = visited \cup {p}
               /\ ff_stack' = rest \o << <<x + 1, y>>, <<x - 1, y>>,
                                         <<x, y + 1>>, <<x, y - 1>> >>
    /\ UNCHANGED <<pc, image, scale, color_args, colors, grid, largest_component,
                   cluster_min_size, waypoint_type, pos, cluster, clusters,
                   coord, result, error, main_vars, ff_visited_cluster,
                   flc_all_visited, flc_components>>

\* flood_fill_connected_component, line 95, and
\* find_largest_connected_component, lines 117-118: the stack is empty, the
\* component is returned and recorded
CcFillReturn ==
    /\ pc = "cc_fill"
    /\ ff_stack = <<>>
    /\ flc_all_visited' = flc_all_visited \cup visited
    /\ flc_components' = Append(flc_components, visited)
    /\ pos' = pos + 1
    /\ pc' = "cc_scan"
    /\ UNCHANGED <<image, scale, color_args, colors, grid, largest_component,
                   cluster_min_size, waypoint_type, visited, cluster, clusters,
                   coord, result, error, main_vars, ff_stack,
                   ff_visited_cluster>>

\* find_largest_connected_component, lines 120-133: the scan is over and the
\* largest component is returned
CcScanEnd ==
    /\ pc = "cc_scan"
    /\ pos = Len(grid[1]) * Len(grid)
    /\ largest_component' = IF flc_components = <<>> THEN {}
                            ELSE largest_of(flc_components)
    /\ pc' = "cc_done"
    /\ UNCHANGED <<image, scale, color_args, colors, grid, cluster_min_size,
                   waypoint_type, pos, visited, cluster, clusters, coord,
                   result, error, main_vars, fill_vars>>

NextFill ==
    \/ FcScan
    \/ FcFillStep
    \/ FcFillReturn
    \/ FcScanEnd
    \/ CcScan
    \/ CcFillStep
    \/ CcFillReturn
    \/ CcScanEnd

\* the interpreter runs one thread and always executes its next statement
SpecFill == InitFill /\ [][NextFill]_vars /\ WF_vars(NextFill)

-----------------------------------------------------------------------------
(* Connectivity, stated without the flood fills *)

TrueCells(g) ==
    {c \in UNION {{<<x - 1, y - 1>> : x \in 1 .. Len(g[y])} : y \in 1 .. Len(g)} :
        At(g, c[1], c[2])}

Abs(a) == IF a < 0 THEN -a ELSE a
\* n = 4: up/down/left/right; n = 8: the diagonals too
Adjacent(a, b, n) ==
    IF n = 4 THEN Abs(a[1] - b[1]) + Abs(a[2] - b[2]) = 1
    ELSE a # b /\ Abs(a[1] - b[1]) <= 1 /\ Abs(a[2] - b[2]) <= 1

\* the cells of `cells` joined to S by a path of n-adjacent cells of `cells`
RECURSIVE Reach(_, _, _)
Reach(cells, S, n) ==
    LET more == {c \in cells \ S : \E s \in S : Adjacent(c, s, n)}
    IN IF more = {} THEN S ELSE Reach(cells, S \cup more, n)

Components(cells, n) == {Reach(cells, {c}, n) : c \in cells}

Connected(cells, n) == \A c \in cells : Reach(cells, {c}, n) = cells

\* row-major rank of a cell in a grid (or image) of the given width
Rank(c, width) == c[2] * width + c[1]
FirstRank(cells, width) ==
    CHOOSE r \in {Rank(c, width) : c \in cells} :
        \A c \in cells : r <= Rank(c, width)

\* the greatest component met first by a row-major scan; {} if there is none
FirstLargest(g) ==
    LET comps == Components(TrueCells(g), 4)
        width == Len(g[1])
    IN IF comps = {} THEN {}
       ELSE CHOOSE c \in comps :
               \A d \in comps :
                   \/ Cardinality(d) < Cardinality(c)
                   \/ /\ Cardinality(d) = Cardinality(c)
                      /\ FirstRank(c, width) <= FirstRank(d, width)

\* the grid as rasterized, before any filtering
Rasterized == rasterize_map(image, scale, colors)

NumComponents(g) == Cardinality(Components(TrueCells(g), 4))

-----------------------------------------------------------------------------
(* Claims about grid generation *)

\* C1: after the pruning step of generate_navigation_grid, any two remaining
\* true cells are joined by a path of 4-connected true cells.
C1_SingleComponent ==
    pc \in {"gng_pruned", "gng_done"} =>
        \A a \in TrueCells(grid) : \A b \in TrueCells(grid) :
            b \in Reach(TrueCells(grid), {a}, 4)

\* a pruning that removed a region and left a region of several cells
C1_Witness ==
    /\ pc = "gng_pruned"
    /\ NumComponents(Rasterized) >= 2
    /\ Cardinality(TrueCells(grid)) >= 2

\* C2 (as claimed): every Navigation Grid record returned by a grid-generation
\* entry point, generate_navigation_grid_from_water included, holds exactly the
\* largest 4-connected component of the rasterized grid: no disconnected true
\* cell remains.
C2_ReturnedGridIsPruned ==
    (pc \in {"gng_done", "water_done"} /\ result # None) =>
        Connected(TrueCells(result.grid), 4)

\* C3: pruning leaves true exactly the cells of the greatest 4-connected
\* component, the first met in row-major order among equals; false cells stay
\* false, and a grid with no or one component is unchanged.
C3_KeepsFirstLargest ==
    [][(pc = "gng_largest" /\ pc' = "gng_pruned") =>
          /\ Len(grid') = Len(grid)
          /\ \A y \in 1 .. Len(grid) : Len(grid'[y]) = Len(grid[y])
          /\ TrueCells(grid') = FirstLargest(grid)
          /\ largest_component = FirstLargest(grid)
          /\ TrueCells(grid') \subseteq TrueCells(grid)
          /\ (TrueCells(grid) = {} => largest_component = {} /\ grid' = grid)
          /\ (NumComponents(grid) = 1 => grid' = grid)]_vars

\* a pruning of a grid whose two greatest components have the same size
C3_Witness ==
    /\ pc = "gng_pruned"
    /\ \E c \in Components(TrueCells(Rasterized), 4) :
         /\ c # TrueCells(grid)
         /\ Cardinality(c) = Cardinality(TrueCells(grid))

\* C4: pruning an already pruned grid returns the same grid.
C4_Idempotent ==
    pc = "gng_pruned" =>
        keep_only(grid, find_largest_connected_component(grid)) = grid

\* a pruned grid that differs from the rasterized one
C4_Witness ==
    /\ pc = "gng_pruned"
    /\ grid # Rasterized
    /\ TrueCells(grid) # {}

\* C7 (as claimed): for every image and every scale > 0 both rasterizers
\* produce a grid of H div scale rows of W div scale cells, each cell true iff
\* the pixel at the clamped cell center passes the navigable predicate.
C7_RasterizersProduceGrid ==
    /\ (image # NoFile => pc \notin {"gng_raised", "water_raised"})
    /\ pc \in {"gng_grid", "water_grid"} =>
         /\ Len(grid) = image.height \div scale
         /\ \A cy \in 0 .. Len(grid) - 1 :
              /\ Len(grid[cy + 1]) = image.width \div scale
              /\ \A cx \in 0 .. image.width \div scale - 1 :
                   LET pixel ==
                         getpixel(image,
                                  Min2(cx * scale + scale \div 2, image.width - 1),
                                  Min2(cy * scale + scale \div 2, image.height - 1))
                   IN At(grid, cx, cy) =
                        IF pc = "gng_grid"
                        THEN classify_pixel(pixel, colors) = "ocean"
                        ELSE is_non_black_pixel(pixel)

-----------------------------------------------------------------------------
(* Claims about detect_waypoints *)

\* the pixels with max(R, G, B) > 10
NonBackground(img) ==
    {c \in DOMAIN img.px : img.px[c][1] > 10 \/ img.px[c][2] > 10 \/ img.px[c][3] > 10}

\* C5: every cluster returned by flood_fill_cluster in the scan loop is a
\* maximal 8-connected set of non-background pixels, holds no pixel twice and
\* no pixel of an earlier cluster; at the end of the scan the clusters returned
\* cover the non-background pixels.
C5_ClustersPartition ==
    [][/\ (pc = "dw_scan" /\ pos' = pos + 1) =>
            LET start == <<pos % image.width, pos \div image.width>>
                C == Range(cluster')
            IN IF start \in NonBackground(image) \ visited
               THEN /\ start \in C
                    /\ Len(cluster') = Cardinality(C)
                    /\ C \subseteq NonBackground(image)
                    /\ Connected(C, 8)
                    /\ \A p \in NonBackground(image) \ C :
                          \A q \in C : ~Adjacent(p, q, 8)
                    /\ C \cap visited = {}
                    /\ visited' = visited \cup C
               ELSE UNCHANGED <<visited, cluster, clusters>>
       /\ (pc = "dw_scan" /\ pc' = "dw_done") =>
            visited = NonBackground(image)]_vars

\* the scan is over an image with a cluster of several pixels, collected by the
\* last flood fill, that only a diagonal step holds together
C5_Witness ==
    /\ pc = "dw_done"
    /\ image # NoFile
    /\ Len(cluster) >= 2
    /\ ~Connected(Range(cluster), 4)

\* C6: detect_waypoints returns one waypoint for each maximal cluster of at
\* least cluster_min_size pixels and none for a smaller one; every waypoint's
\* cluster_size is at least cluster_min_size and its cluster is exactly one
\* maximal cluster, with no pixel of a discarded cluster merged in.
C6_OnlyLargeClusters ==
    (pc = "dw_done" /\ image # NoFile) =>
        LET comps == Components(NonBackground(image), 8)
            large == {c \in comps : Cardinality(c) >= cluster_min_size}
        IN /\ Len(result) = Cardinality(large)
           /\ Len(clusters) = Len(result)
           /\ \A i \in DOMAIN result :
                /\ Range(clusters[i]) \in large
                /\ result[i].metadata.cluster_size = Cardinality(Range(clusters[i]))
                /\ result[i].metadata.cluster_size >= cluster_min_size
                /\ \A j \in DOMAIN result : i # j =>
                      Range(clusters[i]) \cap Range(clusters[j]) = {}

\* a scan that kept one cluster and discarded another
C6_Witness ==
    /\ pc = "dw_done"
    /\ image # NoFile
    /\ Len(result) >= 1
    /\ \E c \in Components(NonBackground(image), 8) :
          Cardinality(c) < cluster_min_size

RECURSIVE SumOver(_, _)
SumOver(S, axis) ==
    IF S = {} THEN 0
    ELSE LET c == CHOOSE c \in S : TRUE
         IN c[axis] + SumOver(S \ {c}, axis)

\* C10: metadata.image_position of every waypoint is the truncated mean of its
\* cluster's pixel coordinates (sum_x div n, sum_y div n), and position is
\* that point converted by image_to_screen_coords.
C10_TruncatedCentroid ==
    (pc = "dw_done" /\ image # NoFile) =>
        \A i \in DOMAIN result :
            LET C  == Range(clusters[i])
                n  == Cardinality(C)
                ip == result[i].metadata.image_position
            IN /\ n = Len(clusters[i])
               /\ ip.x * n <= SumOver(C, 1) /\ SumOver(C, 1) < (ip.x + 1) * n
               /\ ip.y * n <= SumOver(C, 2) /\ SumOver(C, 2) < (ip.y + 1) * n
               /\ result[i].position.x = (ip.x * 1280) \div image.width
               /\ result[i].position.y =
                     ((image.height - ip.y) * 720) \div image.height

\* a waypoint whose mean has a fractional part of at least one half on an axis
C10_Witness ==
    /\ pc = "dw_done"
    /\ image # NoFile
    /\ \E i \in DOMAIN result :
          LET C == Range(clusters[i])
          IN 2 * (SumOver(C, 1) % Cardinality(C)) >= Cardinality(C)

-----------------------------------------------------------------------------
(* Claims about image_to_screen_coords *)

\* image-space X and Y recomputed from the screen position
BackX == (result[1] * coord.image_width) \div 1280
BackY == coord.image_height - ((result[2] * coord.image_height) \div 720)

\* C8 (as claimed): for every image size and every pixel of it, the image
\* position recomputed from the screen position is within 1 of the original
\* on each axis.
C8_RoundTripAnySize ==
    pc = "coords_done" =>
        /\ Abs(BackX - coord.image_x) <= 1
        /\ Abs(BackY - coord.image_y) <= 1

\* C8 (amended): the recomputed X is within 1 of the original when the image is
\* at most 1281 pixels wide, and the recomputed Y when it is at most 721 high.
C8_RoundTripUpToScreenSize ==
    pc = "coords_done" =>
        /\ coord.image_width <= 1281 => Abs(BackX - coord.image_x) <= 1
        /\ coord.image_height <= 721 => Abs(BackY - coord.image_y) <= 1

\* a pixel of a 1281-wide image that comes back off by exactly one in X
C8_Witness ==
    /\ pc = "coords_done"
    /\ coord.image_width = 1281
    /\ coord.image_x > 0
    /\ Abs(BackX - coord.image_x) = 1

\* C9: screen_x = floor(image_x * 1280 / W) and screen_y =
\* floor((H - image_y) * 720 / H); image row 0 maps to screen_y = 720, the next
\* row never maps to a larger screen_y and the next column never to a smaller
\* screen_x (so neither does any later row or column).
C9_FlippedFloor ==
    pc = "coords_done" =>
        LET x == coord.image_x
            y == coord.image_y
            W == coord.image_width
            H == coord.image_height
        IN /\ result[1] * W <= x * 1280 /\ x * 1280 < (result[1] + 1) * W
           /\ result[2] * H <= (H - y) * 720 /\ (H - y) * 720 < (result[2] + 1) * H
           /\ y = 0 => result[2] = 720
           /\ x + 1 < W => image_to_screen_coords(x + 1, y, W, H)[1] >= result[1]
           /\ y + 1 < H => image_to_screen_coords(x, y + 1, W, H)[2] <= result[2]

\* a pixel of the top row, right of the first column, of an image taller than
\* the screen
C9_Witness ==
    /\ pc = "coords_done"
    /\ coord.image_y = 0
    /\ coord.image_x > 0
    /\ coord.image_height > 720
    /\ result[2] = 720

-----------------------------------------------------------------------------
(* C11: the grid squares of a waypoint *)

\* the coarse cells of a set of pixels that lie inside the coarse grid of the image
CellsInExtent(C, W, H, sc) ==
    {g \in {<<c[1] \div sc, c[2] \div sc>> : c \in C} :
        /\ 0 <= g[1] /\ g[1] < W \div sc
        /\ 0 <= g[2] /\ g[2] < H \div sc}

\* the cells listed by a waypoint
ListedCells(w) == {<<w.grid_squares[k].x, w.grid_squares[k].y>> : k \in DOMAIN w.grid_squares}

\* C11: for every cluster kept by detect_waypoints, the grid_squares of its
\* waypoint are exactly the cells (x div scale, y div scale) of its pixels that
\* lie inside the W div scale by H div scale grid, and no cell is listed twice.
C11_GridSquaresAreCellsInExtent ==
    (pc = "dw_done" /\ image # NoFile) =>
        /\ Len(result) = Len(clusters)
        /\ \A i \in DOMAIN result :
              LET expected == CellsInExtent(Range(clusters[i]), image.width,
                                            image.height, scale)
              IN /\ ListedCells(result[i]) = expected
                 /\ Len(result[i].grid_squares) = Cardinality(expected)

\* a waypoint listing one cell that two pixels of its cluster share, while a
\* third pixel of the cluster lies in the strip beyond the last whole cell
C11_Witness ==
    /\ pc = "dw_done"
    /\ image # NoFile
    /\ \E i \in DOMAIN result :
          /\ Len(result[i].grid_squares) = 1
          /\ \E c, d \in Range(clusters[i]) :
                /\ c # d
                /\ <<c[1] \div scale, c[2] \div scale>> = <<0, 0>>
                /\ <<d[1] \div scale, d[2] \div scale>> = <<0, 0>>
          /\ \E c \in Range(clusters[i]) : c[1] \div scale >= image.width \div scale

-----------------------------------------------------------------------------
(* C12, C16: assign_port_names *)

\* C12: after assign_port_names, a list of exactly two waypoints has one
\* "Caribbean Port" and one "European Port" and the Caribbean one has no larger
\* screen X than the European one; in a list of any other non-empty length
\* every waypoint is named "Port k (x=v)" with v its own screen X and k its
\* 1-based rank by ascending X (the ranks are 1 .. n, each used once, and a
\* smaller X has a smaller rank).
C12_NamedByAscendingX ==
    pc = "apn_done" =>
        LET n == Len(result)
            X(i) == result[i].position.x
            name(i) == result[i].metadata.name
        IN IF n = 2
           THEN \E i, j \in 1 .. 2 :
                   /\ i # j
                   /\ name(i) = <<"Caribbean Port">>
                   /\ name(j) = <<"European Port">>
                   /\ X(i) <= X(j)
           ELSE \E rank \in [1 .. n -> 1 .. n] :
                   /\ \A i, j \in 1 .. n : rank[i] = rank[j] => i = j
                   /\ \A i, j \in 1 .. n : X(i) < X(j) => rank[i] < rank[j]
                   /\ \A i \in 1 .. n :
                         name(i) = <<"Port ", rank[i], " (x=", X(i), ")">>

\* two ports detected east-most first: the first of the list is the European one
C12_Witness ==
    /\ pc = "apn_done"
    /\ Len(result) = 2
    /\ result[1].position.x > result[2].position.x
    /\ result[1].metadata.name = <<"European Port">>

\* three ports, the last of them named with rank 3
C12_ThreePorts ==
    /\ pc = "apn_done"
    /\ Len(result) = 3
    /\ result[3].metadata.name[2] = 3

\* C16: assign_port_names returns a list of the same length whose i-th waypoint
\* has the id, position, type, metadata.cluster_size, metadata.image_position
\* and grid_squares of the i-th waypoint it was given; only metadata.name may
\* differ.
C16_OnlyNameChanges ==
    [][AssignPortNames =>
          /\ Len(result') = Len(result)
          /\ \A i \in DOMAIN result :
                /\ result'[i].id = result[i].id
                /\ result'[i].position = result[i].position
                /\ result'[i].type = result[i].type
                /\ result'[i].metadata.cluster_size = result[i].metadata.cluster_size
                /\ result'[i].metadata.image_position = result[i].metadata.image_position
                /\ result'[i].grid_squares = result[i].grid_squares
                /\ DOMAIN result'[i] = DOMAIN result[i]
                /\ DOMAIN result'[i].metadata = DOMAIN result[i].metadata]_vars

\* two ports that the sort reorders, still in the order of detection, renamed
C16_Witness ==
    /\ pc = "apn_done"
    /\ Len(result) = 2
    /\ result[1].position.x > result[2].position.x
    /\ result[1].id = <<"port", "_", 0>>
    /\ result[2].id = <<"port", "_", 1>>
    /\ result[2].metadata.name # <<"Port", " ", 2>>

-----------------------------------------------------------------------------
(* C13, C14: main of generate_pathing_from_layers.py *)

InvalidConfiguration == scale <= 0 \/ cluster_min_size <= 0

\* C13: with scale <= 0 or cluster_min_size <= 0 the run of main is rejected at
\* once: it is still at its start or has raised, no image was opened, no grid
\* was rasterized, no waypoint list was detected and no file was written.
C13_InvalidConfigurationRejected ==
    InvalidConfiguration =>
        /\ pc \in {"main_start", "main_raised"}
        /\ opened = {}
        /\ written = {}
        /\ main_grid_data = None
        /\ main_ports = None
        /\ main_islands = None

\* the files main writes for a layer
Outputs(layer) ==
    IF layer = "water" THEN {"navigation_grid.rb", "navigation_grid.json"}
    ELSE IF layer = "port" THEN {"ports.json"}
    ELSE {"islands.json"}

\* C14: a run of main with a valid configuration ends by completing, whichever
\* of the three images are missing; when it has ended every present image's
\* files are written and none of a missing image's files is.
C14_MissingImageOnlyLosesItsOutput ==
    (pc \in {"main_done", "main_raised"} /\ ~InvalidConfiguration) =>
        /\ pc = "main_done"
        /\ \A layer \in {"water", "port", "island"} :
              IF files[layer] = NoFile
              THEN Outputs(layer) \cap written = {}
              ELSE Outputs(layer) \subseteq written

-----------------------------------------------------------------------------
(* C15: the flood fills terminate and collect every pixel once *)

\* both scans run to their end
ScansTerminate == <>(pc \in {"fc_done", "cc_done"})

\* a flood fill under way returns to its scan, and its stack is empty then
EachFillEmptiesItsStack ==
    (pc \in {"fc_fill", "cc_fill"}) ~> (pc \in {"fc_scan", "cc_scan"} /\ ff_stack = <<>>)

\* a flood_fill_cluster starts at a pixel no earlier fill has collected
StartsFresh ==
    [][(pc = "fc_scan" /\ pc' = "fc_fill") =>
          /\ Len(ff_stack') = 1
          /\ ff_stack'[1] \notin visited]_vars

\* a step of flood_fill_cluster that collects a pixel collects one non-black
\* pixel that no fill, this one or an earlier one, has collected before
CollectsOnce ==
    [][(pc = "fc_fill" /\ cluster' # cluster) =>
          \E p \in NonBackground(image) :
             /\ cluster' = Append(cluster, p)
             /\ p \notin visited
             /\ visited' = visited \cup {p}]_vars

\* flood_fill_connected_component never adds a blocked cell or a cell that an
\* earlier component of the scan holds
ComponentsApart ==
    [][(pc = "cc_fill" /\ visited' # visited) =>
          \E p \in TrueCells(grid) :
             /\ visited' = visited \cup {p}
             /\ p \notin visited
             /\ p \notin flc_all_visited]_vars

\* when the scan of detect_waypoints is over every non-black pixel has been
\* collected, and the clusters kept share no pixel and repeat none
AllCollected ==
    [](pc = "fc_done" =>
          /\ visited = NonBackground(image)
          /\ \A i \in DOMAIN clusters :
                /\ Cardinality(Range(clusters[i])) = Len(clusters[i])
                /\ \A j \in DOMAIN clusters :
                      i # j => Range(clusters[i]) \cap Range(clusters[j]) = {})

\* C15: on every grid and image of the bounded sets, each flood fill
\* (flood_fill_cluster and flood_fill_connected_component) ends with an empty
\* stack and both scans terminate; over the scan of detect_waypoints every
\* non-black pixel is collected exactly once: a fill starts only at a pixel not
\* yet collected, a pixel joins a cluster only if no fill has collected it
\* before (whether or not that earlier cluster was kept), and at the end the
\* pixels collected are all the non-black pixels.
C15_FillsTerminateAndCollectOnce ==
    /\ ScansTerminate
    /\ EachFillEmptiesItsStack
    /\ StartsFresh
    /\ CollectsOnce
    /\ ComponentsApart
    /\ AllCollected

\* a later fill has collected two pixels after an earlier cluster was discarded
\* for being too small, and still has work on its stack
C15_Witness ==
    /\ pc = "fc_fill"
    /\ clusters = <<>>
    /\ visited \ Range(cluster) # {}
    /\ Len(cluster) >= 2
    /\ ff_stack # <<>>

=============================================================================
